---------------------------- MODULE Spec2Model ----------------------------
(***************************************************************************)
(* A model of cdn/serve.py: the authenticated static-file server with a   *)
(* signed redeploy webhook.                                                *)
(*                                                                         *)
(* Text is modelled as sequences of one-character strings.  Python values  *)
(* that may be of several types (a cookie that may be None, a JSON field   *)
(* that may be a number) are records [type, v].  The keyed hash is a toy   *)
(* rolling hash written as hexadecimal digits: it is deterministic, it     *)
(* depends on the key and on every character of the message, and its       *)
(* leading digits differ for different keys on the same message and for    *)
(* messages that differ in one character (the idealisation under which     *)
(* HMAC-SHA256 is used by the program).                                    *)
(***************************************************************************)
EXTENDS Naturals, Sequences, FiniteSets

VARIABLES
    SESSION_SECRET,  \* the process-wide signing key (serve.py:27)
    config,          \* the Config record populated at start (serve.py:32-38, 219)
    fs,              \* the filesystem: a set of [loc, kind] entries
    issued,          \* the session tokens handed out by login so far
    req,             \* the request handled last
    resp             \* the response to it

vars == <<SESSION_SECRET, config, fs, issued, req, resp>>

---------------------------------------------------------------------------
(* Bounds of the model *)

\* hex characters kept of a signature (16 in the program)
SigLen == 2
\* hex characters of a digest beyond the kept ones (48 in the program)
ExtraLen == 1
\* hex characters of a nonce (32 in the program)
NonceLen == 1
\* longest request path after its leading "/"
MaxPathLen == 7

---------------------------------------------------------------------------
(* Characters and strings *)

\* a character outside ASCII (e-acute, as latin-1 decodes byte 0xE9)
NonAsciiChar == "U+00E9"

\* the characters of the model in ascending code point order
CodeOrder ==
    << ".", "/", "0", "1", "2", "3", "4", "5", "6", "7", "8", "9", "=",
       "a", "b", "c", "d", "e", "f", "g", "h", "i", "l", "n", "o", "r", "s",
       NonAsciiChar >>

Ord(c) == CHOOSE i \in 1..Len(CodeOrder) : CodeOrder[i] = c

Hex == << "0", "1", "2", "3", "4", "5", "6", "7", "8", "9",
          "a", "b", "c", "d", "e", "f" >>

IsAscii(s) == \A i \in 1..Len(s) : s[i] # NonAsciiChar

\* s < t in Python's string order (by code point, shorter prefix first)
RECURSIVE StrLess(_, _)
StrLess(s, t) ==
    IF t = << >> THEN FALSE
    ELSE IF s = << >> THEN TRUE
    ELSE IF Head(s) = Head(t) THEN StrLess(Tail(s), Tail(t))
    ELSE Ord(Head(s)) < Ord(Head(t))

\* all strings over the characters cs (a set) of length at most n
RECURSIVE StringsUpTo(_, _)
StringsUpTo(cs, n) ==
    IF n = 0 THEN { << >> }
    ELSE LET shorter == StringsUpTo(cs, n - 1)
         IN  shorter \cup { Append(s, c) : s \in shorter, c \in cs }

StringsOfLen(cs, n) == { s \in StringsUpTo(cs, n) : Len(s) = n }

\* s.startswith(p)
StartsWith(s, p) == Len(s) >= Len(p) /\ SubSeq(s, 1, Len(p)) = p

\* sub in s
Contains(s, sub) ==
    \E i \in 1..(Len(s) + 1) :
        i + Len(sub) - 1 <= Len(s) /\ SubSeq(s, i, i + Len(sub) - 1) = sub

\* s.lstrip(c)
RECURSIVE lstrip(_, _)
lstrip(s, c) ==
    IF s # << >> /\ Head(s) = c THEN lstrip(Tail(s), c) ELSE s

\* s.rstrip(c)
RECURSIVE rstrip(_, _)
rstrip(s, c) ==
    IF s # << >> /\ s[Len(s)] = c THEN rstrip(SubSeq(s, 1, Len(s) - 1), c) ELSE s

\* s.split(sep) for a one-character sep: the list of fields, empty ones kept
RECURSIVE SplitFrom(_, _, _)
SplitFrom(s, sep, cur) ==
    IF s = << >> THEN << cur >>
    ELSE IF Head(s) = sep THEN << cur >> \o SplitFrom(Tail(s), sep, << >>)
    ELSE SplitFrom(Tail(s), sep, Append(cur, Head(s)))

split(s, sep) == SplitFrom(s, sep, << >>)

\* sep.join(parts)
RECURSIVE join(_, _)
join(sep, parts) ==
    IF parts = << >> THEN << >>
    ELSE IF Len(parts) = 1 THEN parts[1]
    ELSE parts[1] \o << sep >> \o join(sep, Tail(parts))

\* the position of the last occurrence of character c in s (0: none)
LastIndex(s, c) ==
    IF \E i \in 1..Len(s) : s[i] = c
    THEN CHOOSE i \in 1..Len(s) :
            s[i] = c /\ \A j \in (i + 1)..Len(s) : s[j] # c
    ELSE 0

\* the position of the first occurrence of character c in s (0: none)
FirstIndex(s, c) ==
    IF \E i \in 1..Len(s) : s[i] = c
    THEN CHOOSE i \in 1..Len(s) :
            s[i] = c /\ \A j \in 1..(i - 1) : s[j] # c
    ELSE 0

\* s.split(".", 1) : cut at the FIRST separator (a wrong rsplit)
split1(s, c) ==
    LET i == FirstIndex(s, c)
    IN  << SubSeq(s, 1, i - 1), SubSeq(s, i + 1, Len(s)) >>

\* s.rsplit(c, 1) for s that contains c: cut at the LAST separator
rsplit1(s, c) ==
    LET i == LastIndex(s, c)
    IN  << SubSeq(s, 1, i - 1), SubSeq(s, i + 1, Len(s)) >>

---------------------------------------------------------------------------
(* Python values *)

PyStr(s) == [type |-> "str", v |-> s]
PyNone == [type |-> "NoneType", v |-> << >>]
PyInt == [type |-> "int", v |-> << "1" >>]
Absent == [type |-> "absent", v |-> << >>]

\* bool(x) for the values above
Truthy(x) == x.type \in {"str", "int"} /\ x.v # << >>

---------------------------------------------------------------------------
(* The keyed hash *)

RECURSIVE Pow16(_)
Pow16(n) == IF n = 0 THEN 1 ELSE 16 * Pow16(n - 1)

RECURSIVE Roll(_, _, _)
Roll(s, h, m) ==
    IF s = << >> THEN h
    ELSE Roll(Tail(s), (h * 31 + Ord(Head(s))) % m, m)

\* n as len hexadecimal digits, most significant first
RECURSIVE ToHex(_, _)
ToHex(n, len) ==
    IF len = 0 THEN << >>
    ELSE Append(ToHex(n \div 16, len - 1), Hex[(n % 16) + 1])

\* hmac.new(key, msg, hashlib.sha256).hexdigest()
hexdigest(key, msg) ==
    LET m == Pow16(SigLen)
        h == Roll(msg, Roll(key, 7, m), m)
    IN  ToHex(h, SigLen) \o ToHex((h * 5 + Len(msg)) % Pow16(ExtraLen), ExtraLen)

\* hmac.compare_digest(a, b): "True", "False", or the TypeError it raises
\* for operands that are not both str, or for a str with a non-ASCII character
compare_digest(a, b) ==
    IF a.type # "str" \/ b.type # "str" THEN "TypeError"
    ELSE IF ~IsAscii(a.v) \/ ~IsAscii(b.v) THEN "TypeError"
    ELSE IF a.v = b.v THEN "True" ELSE "False"

---------------------------------------------------------------------------
(* Session tokens *)

\* a signature that keeps the whole digest (a wrong create_session_token)
create_session_token_untruncated(nonce) ==
    nonce \o << "." >> \o hexdigest(SESSION_SECRET, nonce)

\* create_session_token(), with the value secrets.token_hex(16) drew
create_session_token(nonce) ==
    LET data == nonce
        sig == SubSeq(hexdigest(SESSION_SECRET, data), 1, SigLen)
    IN  data \o << "." >> \o sig

\* verification that cuts the token at its first "." (a wrong rsplit)
verify_session_token_first_dot(token) ==
    IF ~Truthy(token) \/ ~Contains(token.v, << "." >>) THEN "False"
    ELSE LET parts == split1(token.v, ".")
             expected == SubSeq(hexdigest(SESSION_SECRET, parts[1]), 1, SigLen)
         IN  compare_digest(PyStr(parts[2]), PyStr(expected))

\* verify_session_token(token): "True", "False", or the exception raised
verify_session_token(token) ==
    IF ~Truthy(token) \/ ~Contains(token.v, << "." >>) THEN "False"
    ELSE LET parts == rsplit1(token.v, ".")
             data == parts[1]
             sig == parts[2]
             expected == SubSeq(hexdigest(SESSION_SECRET, data), 1, SigLen)
         IN  compare_digest(PyStr(sig), PyStr(expected))

---------------------------------------------------------------------------
(* Paths and the filesystem *)

\* posixpath.normpath(path)
RECURSIVE NormComps(_, _, _)
NormComps(comps, new_comps, initial_slashes) ==
    IF comps = << >> THEN new_comps
    ELSE LET comp == Head(comps)
             n == Len(new_comps)
         IN  IF comp = << >> \/ comp = << "." >>
             THEN NormComps(Tail(comps), new_comps, initial_slashes)
             ELSE IF \/ comp # << ".", "." >>
                     \/ (initial_slashes = 0 /\ n = 0)
                     \/ (n > 0 /\ new_comps[n] = << ".", "." >>)
             THEN NormComps(Tail(comps), Append(new_comps, comp), initial_slashes)
             ELSE IF n > 0
             THEN NormComps(Tail(comps), SubSeq(new_comps, 1, n - 1), initial_slashes)
             ELSE NormComps(Tail(comps), new_comps, initial_slashes)

normpath(path) ==
    IF path = << >> THEN << "." >>
    ELSE LET initial_slashes ==
                 IF ~StartsWith(path, << "/" >>) THEN 0
                 ELSE IF StartsWith(path, << "/", "/" >>)
                         /\ ~StartsWith(path, << "/", "/", "/" >>) THEN 2
                 ELSE 1
             comps == NormComps(split(path, "/"), << >>, initial_slashes)
             joined == join("/", comps)
             result == IF initial_slashes = 2 THEN << "/", "/" >> \o joined
                       ELSE IF initial_slashes = 1 THEN << "/" >> \o joined
                       ELSE joined
         IN  IF result = << >> THEN << "." >> ELSE result

\* posixpath.join(a, b)
os_path_join(a, b) ==
    IF StartsWith(b, << "/" >>) THEN b
    ELSE IF a = << >> \/ a[Len(a)] = "/" THEN a \o b
    ELSE a \o << "/" >> \o b

\* the kind of the entry at location loc (a sequence of names from "/")
KindAt(loc) ==
    IF \E e \in fs : e.loc = loc
    THEN (CHOOSE e \in fs : e.loc = loc).kind
    ELSE "none"

\* the kernel's resolution of an absolute path: the location it names, if any
RECURSIVE Walk(_, _)
Walk(comps, loc) ==
    IF comps = << >> THEN [ok |-> KindAt(loc) # "none", loc |-> loc]
    ELSE IF KindAt(loc) # "dir" THEN [ok |-> FALSE, loc |-> loc]
    ELSE LET comp == Head(comps)
         IN  IF comp = << >> \/ comp = << "." >> THEN Walk(Tail(comps), loc)
             ELSE IF comp = << ".", "." >>
             THEN Walk(Tail(comps),
                       IF loc = << >> THEN loc ELSE SubSeq(loc, 1, Len(loc) - 1))
             ELSE Walk(Tail(comps), Append(loc, comp))

Resolve(path) == Walk(split(path, "/"), << >>)

\* os.path.isdir(path), os.path.isfile(path)
isdir(path) == LET r == Resolve(path) IN r.ok /\ KindAt(r.loc) = "dir"
isfile(path) == LET r == Resolve(path) IN r.ok /\ KindAt(r.loc) = "file"

\* os.listdir(path): the names in the directory (in no particular order)
listdir(path) ==
    LET loc == Resolve(path).loc
    IN  { e.loc[Len(e.loc)] :
            e \in { x \in fs : /\ Len(x.loc) = Len(loc) + 1
                               /\ SubSeq(x.loc, 1, Len(loc)) = loc } }

\* the names in descending order (a wrong sort)
RECURSIVE sorted_descending(_)
sorted_descending(names) ==
    IF names = { } THEN << >>
    ELSE LET hi == CHOOSE x \in names : \A y \in names : y = x \/ StrLess(y, x)
         IN  << hi >> \o sorted_descending(names \ { hi })

\* sorted(names)
RECURSIVE sorted(_)
sorted(names) ==
    IF names = { } THEN << >>
    ELSE LET lo == CHOOSE x \in names : \A y \in names : y = x \/ StrLess(x, y)
         IN  << lo >> \o sorted(names \ { lo })

---------------------------------------------------------------------------
(* Requests and responses *)

NoReq ==
    [handler |-> "none", cookie |-> PyNone, path |-> << >>, json |-> [kind |-> "none", hash |-> Absent],
     nonce |-> << >>, sig_header |-> << >>, body |-> << >>,
     fetch |-> "none", reset |-> "none", popen |-> "none"]

\* a response: its HTTP status, what it is, and what producing it did
Response(status, kind) ==
    [status |-> status, kind |-> kind,
     auth |-> "none",        \* what verify_session_token returned or raised
     exc |-> "none",         \* the exception that escaped the handler
     cookie |-> PyNone,      \* the session cookie set
     full_path |-> << >>,    \* the path listed or streamed
     dirs |-> << >>, files |-> << >>, links |-> << >>,
     calls |-> << >>]        \* the redeploy commands run, with their outcomes

NoResp == Response(0, "none")

\* an exception that no handler catches: the framework answers 500
Unhandled(exc) == [Response(500, "unhandled") EXCEPT !.exc = exc]

---------------------------------------------------------------------------
(* POST /login *)

\* data.get("hash", "") inside the try, "" on any exception
received_hash_of(json) ==
    IF json.kind = "object"
    THEN IF json.hash = Absent THEN PyStr(<< >>) ELSE json.hash
    ELSE PyStr(<< >>)

login(json, nonce) ==
    LET received_hash == received_hash_of(json)
        same == compare_digest(received_hash, PyStr(config.password_hash))
    IN  IF same = "TypeError" THEN Unhandled("TypeError")
        ELSE IF same = "True"
        THEN [Response(200, "login_ok") EXCEPT
                 !.cookie = PyStr(create_session_token(nonce))]
        ELSE Response(401, "login_fail")

---------------------------------------------------------------------------
(* GET /{path} *)

\* normalisation that keeps the leading separators (a missing lstrip)
safe_path_unstripped(path) == normpath(path)

\* safe_path = os.path.normpath(path.lstrip("/"))
safe_path_of(path) == normpath(lstrip(path, "/"))

\* a check for a leading "../" only (misses the path ".." itself)
is_traversal_prefix(safe_path) == StartsWith(safe_path, << ".", ".", "/" >>)

\* ".." in safe_path
is_traversal(safe_path) == Contains(safe_path, << ".", "." >>)

\* full_path = os.path.join(data_dir, safe_path) if safe_path else data_dir
full_path_of(safe_path) ==
    IF safe_path # << >> THEN os_path_join(config.data_dir, safe_path)
    ELSE config.data_dir

Hidden(e) == StartsWith(e, << "." >>)

\* the entries in the order os.listdir gave them (a missing sorted())
listing_entries_unsorted(full_path) ==
    LET entries == sorted_descending(listdir(full_path))
    IN  << SelectSeq(entries,
               LAMBDA e : isdir(os_path_join(full_path, e)) /\ ~Hidden(e)),
           SelectSeq(entries,
               LAMBDA e : isfile(os_path_join(full_path, e)) /\ ~Hidden(e)) >>

\* entries, dirs and files of the listing: << dirs, files >>
listing_entries(full_path) ==
    LET entries == sorted(listdir(full_path))
    IN  << SelectSeq(entries,
               LAMBDA e : isdir(os_path_join(full_path, e)) /\ ~Hidden(e)),
           SelectSeq(entries,
               LAMBDA e : isfile(os_path_join(full_path, e)) /\ ~Hidden(e)) >>

\* the directory listing of full_path, requested as path: one link per entry
listing(path, full_path) ==
    LET dirs == listing_entries(full_path)[1]
        files == listing_entries(full_path)[2]
        base == rstrip(path, "/")
    IN  [Response(200, "listing") EXCEPT
            !.full_path = full_path, !.dirs = dirs, !.files = files,
            !.links = [i \in 1..Len(dirs) |-> base \o << "/" >> \o dirs[i] \o << "/" >>]
                      \o [i \in 1..Len(files) |-> base \o << "/" >> \o files[i]]]

\* the part of serve_files after the authentication check
resolve(path) ==
    LET safe_path == safe_path_of(path)
    IN  IF is_traversal(safe_path) THEN Response(403, "forbidden")
        ELSE LET full_path == full_path_of(safe_path)
             IN  IF isdir(full_path) THEN listing(path, full_path)
                 ELSE IF isfile(full_path)
                 THEN [Response(200, "file") EXCEPT !.full_path = full_path]
                 ELSE Response(404, "not_found")

\* serve_files(request): the token check, then the path
serve_files(token, path) ==
    LET auth == verify_session_token(token)
    IN  IF auth = "TypeError" THEN [Unhandled("TypeError") EXCEPT !.auth = auth]
        ELSE IF auth = "False"
        THEN IF path = << "/" >>
             THEN [Response(200, "login_page") EXCEPT !.auth = auth]
             ELSE [Response(401, "unauthorized") EXCEPT !.auth = auth]
        ELSE [resolve(path) EXCEPT !.auth = auth]

---------------------------------------------------------------------------
(* POST /webhook *)

Call(cmd, out) == [cmd |-> cmd, out |-> out]

\* a redeploy that does not look at the reset's exit status
redeploy_ignoring_reset(fetch, reset, popen) ==
    IF fetch # "ok"
    THEN [Response(500, "error") EXCEPT !.calls = << Call("fetch", fetch) >>]
    ELSE IF reset = "timeout"
    THEN [Response(500, "error") EXCEPT
             !.calls = << Call("fetch", fetch), Call("reset", reset) >>]
    ELSE IF popen # "ok"
    THEN [Response(500, "error") EXCEPT
             !.calls = << Call("fetch", fetch), Call("reset", reset),
                          Call("restart", popen) >>]
    ELSE [Response(200, "restarting") EXCEPT
             !.calls = << Call("fetch", fetch), Call("reset", reset),
                          Call("restart", popen) >>]

\* the try block: git fetch, git reset --hard, then the detached restart.
\* fetch: "ok", "nonzero" (CalledProcessError, check=True) or "timeout"
\* reset: "ok", "nonzero" (returncode != 0) or "timeout"
\* popen: "ok" or "oserror" (the script could not be started)
redeploy(fetch, reset, popen) ==
    IF fetch # "ok"
    THEN [Response(500, "error") EXCEPT !.calls = << Call("fetch", fetch) >>]
    ELSE IF reset = "timeout"
    THEN [Response(500, "error") EXCEPT
             !.calls = << Call("fetch", fetch), Call("reset", reset) >>]
    ELSE IF reset # "ok"
    THEN [Response(500, "reset_failed") EXCEPT
             !.calls = << Call("fetch", fetch), Call("reset", reset) >>]
    ELSE IF popen # "ok"
    THEN [Response(500, "error") EXCEPT
             !.calls = << Call("fetch", fetch), Call("reset", reset),
                          Call("restart", popen) >>]
    ELSE [Response(200, "restarting") EXCEPT
             !.calls = << Call("fetch", fetch), Call("reset", reset),
                          Call("restart", popen) >>]

Sha256Prefix == << "s", "h", "a", "2", "5", "6", "=" >>

\* "sha256=" + hmac.new(webhook_secret, body, sha256).hexdigest()
expected_header(body) == Sha256Prefix \o hexdigest(config.webhook_secret, body)

webhook(sig_header, body, fetch, reset, popen) ==
    IF ~Truthy(PyStr(config.webhook_secret)) \/ ~Truthy(PyStr(config.repo_dir))
    THEN Response(500, "not_configured")
    ELSE IF ~StartsWith(sig_header, Sha256Prefix)
    THEN Response(401, "missing_signature")
    ELSE LET same == compare_digest(PyStr(sig_header), PyStr(expected_header(body)))
         IN  IF same = "TypeError" THEN Unhandled("TypeError")
             ELSE IF same = "False" THEN Response(401, "invalid_signature")
             ELSE redeploy(fetch, reset, popen)

---------------------------------------------------------------------------
(* The inputs the model draws from *)

\* values of SESSION_SECRET = secrets.token_hex(32), one per process
Secrets == { << "1", "c" >>, << "2", "d" >> }

NonceChars == { "0", "a" }

\* values of secrets.token_hex(16)
Nonces == StringsOfLen(NonceChars, NonceLen)

FirstNonce == [i \in 1..NonceLen |-> "0"]

\* --password-hash
PasswordHash == << "a", "b" >>

\* --webhook-secret as the operator may set it, and a secret of somebody else
WebhookSecret == << "5", "e" >>
OtherWebhookSecret == << "6", "f" >>

\* --data-dir and --repo-dir
DataDir == << "/", "d" >>
RepoDir == << "/", "r" >>

Config(data_dir, repo_dir, webhook_secret) ==
    [data_dir |-> data_dir, repo_dir |-> repo_dir, password_hash |-> PasswordHash,
     webhook_secret |-> webhook_secret, port |-> 8888]

\* a string with the character at position i replaced by c
Replace(s, i, c) == [s EXCEPT ![i] = c]

AlterChars == { "0", "f", NonAsciiChar }

\* the strings that differ from s in exactly one position after position from
Altered(s, from) ==
    { Replace(s, i, c) : i \in { j \in 1..Len(s) : j > from }, c \in AlterChars }
        \ { s }

\* the text signed in the tokens tried: nonces, and text no login would sign
TokenDatas == Nonces \cup { << >>, << "0", ".", "a" >>, << NonAsciiChar >> }

SignedWith(key, data) ==
    data \o << "." >> \o SubSeq(hexdigest(key, data), 1, SigLen)

SignedTokens == { SignedWith(k, d) : k \in Secrets, d \in TokenDatas }

MalformedTokens ==
    { << >>, << "." >>, << "0" >>, << "0", "." >>, << ".", "0" >>,
      << "0", "9", "0" >>, << NonAsciiChar >> }

\* the values request.cookies.get("session") may have
TokenInputs ==
    { PyNone }
        \cup { PyStr(t) : t \in SignedTokens \cup MalformedTokens }
        \cup { PyStr(a) : a \in UNION { Altered(t, LastIndex(t, ".")) : t \in SignedTokens } }

\* request paths tried with every cookie
AuthPaths == { << "/" >>, << "/", "a" >>, << "/", ".", ".", "/", "e" >>,
               << "/", "l", "o", "g", "i", "n" >> }

PathChars == { "/", ".", "a" }

\* request.url.path: it starts with "/"
PathInputs == { << "/" >> \o s : s \in StringsUpTo(PathChars, MaxPathLen) }

ListPaths == { << "/" >>, << "/", "a" >>, << "/", "a", "/" >>, << "/", "b" >> }

JsonInvalid == [kind |-> "invalid", hash |-> Absent]
JsonArray == [kind |-> "array", hash |-> Absent]
JsonObject(h) == [kind |-> "object", hash |-> h]

\* the bodies POSTed to /login
LoginBodies ==
    { JsonInvalid, JsonArray }
        \cup { JsonObject(h) :
                 h \in { Absent, PyNone, PyInt, PyStr(PasswordHash), PyStr(<< >>),
                         PyStr(<< "a", "c" >>), PyStr(<< "a" >>),
                         PyStr(<< "a", NonAsciiChar >>) } }

GoodLogin == JsonObject(PyStr(PasswordHash))

\* raw request bodies POSTed to /webhook
Bodies == { << >>, << "a" >>, << "a", "b" >> }

\* values of the X-Hub-Signature-256 header ("" when it is missing)
HeaderInputs ==
    LET good == { Sha256Prefix \o hexdigest(k, b) :
                    k \in { WebhookSecret, OtherWebhookSecret, << >> }, b \in Bodies }
    IN  { << >>, Sha256Prefix, hexdigest(WebhookSecret, << "a" >>),
          << "s", "h", "a", "1", "=" >> \o hexdigest(WebhookSecret, << "a" >>) }
            \cup good
            \cup UNION { Altered(h, Len(Sha256Prefix)) : h \in good }

FewHeaders ==
    { << >>, Sha256Prefix \o hexdigest(WebhookSecret, << "a" >>),
      Sha256Prefix \o hexdigest(OtherWebhookSecret, << "a" >>) }

FetchOutcomes == { "ok", "nonzero", "timeout" }
ResetOutcomes == { "ok", "nonzero", "timeout" }
PopenOutcomes == { "ok", "oserror" }

---------------------------------------------------------------------------
(* Filesystems *)

Entry(loc, kind) == [loc |-> loc, kind |-> kind]

D == << "d" >>

\* "/" with the data directory /d, the repository /r and a file /e outside both
BaseFS ==
    { Entry(<< >>, "dir"), Entry(<< D >>, "dir"), Entry(<< << "e" >> >>, "file"),
      Entry(<< << "r" >> >>, "dir") }

TypicalFS ==
    BaseFS \cup
    { Entry(<< D, << "a" >> >>, "dir"),
      Entry(<< D, << "a" >>, << "a" >> >>, "file"),
      Entry(<< D, << "a" >>, << ".", "a" >> >>, "dir"),
      Entry(<< D, << "a" >>, << "a", "a" >> >>, "dir"),
      Entry(<< D, << ".", "a" >> >>, "file"),
      Entry(<< D, << "a", "a" >> >>, "file"),
      Entry(<< D, << "a", ".", ".", "a" >> >>, "file"),
      Entry(<< D, << "b" >> >>, "other") }

ChildNames == { << "a" >>, << "b" >>, << ".", "a" >>, << "a", "b" >>, << "c" >> }

\* "other": neither a directory nor a regular file (a broken symbolic link,
\* a socket, a FIFO, a device)
Kinds == { "dir", "file", "other" }

\* the data directory with children of the kinds given, "none" for no entry
ListFS(kinds) ==
    BaseFS
        \cup { Entry(<< D, n >>, kinds[n]) : n \in { m \in ChildNames : kinds[m] # "none" } }
        \cup (IF kinds[<< "a" >>] = "dir"
              THEN { Entry(<< D, << "a" >>, << "b" >> >>, "file"),
                     Entry(<< D, << "a" >>, << "a" >> >>, "dir"),
                     Entry(<< D, << "a" >>, << ".", "b" >> >>, "file") }
              ELSE { })

ListFSs == { ListFS(k) : k \in [ChildNames -> Kinds \cup { "none" }] }

---------------------------------------------------------------------------
(* The state machine *)

Idle == req = NoReq

\* POST /login with body json; nonce is what secrets.token_hex(16) returns
Login(json, nonce) ==
    /\ Idle
    /\ LET r == login(json, nonce)
       IN  /\ resp' = r
           /\ issued' = IF r.kind = "login_ok" THEN issued \cup { r.cookie.v }
                        ELSE issued
    /\ req' = [NoReq EXCEPT !.handler = "login", !.json = json, !.nonce = nonce]
    /\ UNCHANGED << SESSION_SECRET, config, fs >>

\* GET path with the session cookie token (PyNone: no cookie)
ServeFiles(token, path) ==
    /\ Idle
    /\ resp' = serve_files(token, path)
    /\ req' = [NoReq EXCEPT !.handler = "serve_files", !.cookie = token, !.path = path]
    /\ UNCHANGED << SESSION_SECRET, config, fs, issued >>

\* POST /webhook; fetch, reset and popen are what the commands would do
Webhook(sig_header, body, fetch, reset, popen) ==
    /\ Idle
    /\ resp' = webhook(sig_header, body, fetch, reset, popen)
    /\ req' = [NoReq EXCEPT !.handler = "webhook", !.sig_header = sig_header,
                            !.body = body, !.fetch = fetch, !.reset = reset,
                            !.popen = popen]
    /\ UNCHANGED << SESSION_SECRET, config, fs, issued >>

\* the response is sent and the next request may be handled
Send ==
    /\ ~Idle
    /\ req' = NoReq
    /\ resp' = NoResp
    /\ UNCHANGED << SESSION_SECRET, config, fs, issued >>

\* the server as a whole, with every cookie and login body tried
Init ==
    /\ SESSION_SECRET \in Secrets
    /\ config = Config(DataDir, RepoDir, WebhookSecret)
    /\ fs = TypicalFS
    /\ issued = { }
    /\ req = NoReq
    /\ resp = NoResp

AnyLogin == Idle /\ \E json \in LoginBodies, nonce \in Nonces : Login(json, nonce)

AnyCookie == Idle /\ \E token \in TokenInputs, path \in AuthPaths : ServeFiles(token, path)

SomeWebhook ==
    Idle /\ \E h \in FewHeaders, f \in FetchOutcomes :
        Webhook(h, << "a" >>, f, "ok", "ok")

Next == AnyLogin \/ AnyCookie \/ SomeWebhook \/ Send

Spec == Init /\ [][Next]_vars

\* the file server with every path tried by a logged-in client
InitPath ==
    /\ SESSION_SECRET = << "1", "c" >>
    /\ config \in { Config(d, RepoDir, WebhookSecret) :
                      d \in { DataDir, DataDir \o << "/" >> } }
    /\ fs = TypicalFS
    /\ issued = { }
    /\ req = NoReq
    /\ resp = NoResp

FirstLogin == Login(GoodLogin, FirstNonce)

AnyPath ==
    Idle /\ \E token \in { PyStr(t) : t \in issued } \cup { PyNone }, path \in PathInputs :
        ServeFiles(token, path)

NextPath == FirstLogin \/ AnyPath \/ Send

SpecPath == InitPath /\ [][NextPath]_vars

\* the file server over every small data directory
InitList ==
    /\ SESSION_SECRET = << "1", "c" >>
    /\ config = Config(DataDir, RepoDir, WebhookSecret)
    /\ fs \in ListFSs
    /\ issued = { }
    /\ req = NoReq
    /\ resp = NoResp

ListPath ==
    Idle /\ \E token \in { PyStr(t) : t \in issued }, path \in ListPaths :
        ServeFiles(token, path)

NextList == FirstLogin \/ ListPath \/ Send

SpecList == InitList /\ [][NextList]_vars

\* the webhook with every header, body and command outcome tried
InitWebhook ==
    /\ SESSION_SECRET = << "1", "c" >>
    /\ config \in { Config(DataDir, r, w) :
                      r \in { << >>, RepoDir }, w \in { << >>, WebhookSecret } }
    /\ fs = TypicalFS
    /\ issued = { }
    /\ req = NoReq
    /\ resp = NoResp

AnyWebhook ==
    Idle /\ \E h \in HeaderInputs, b \in Bodies, f \in FetchOutcomes,
       r \in ResetOutcomes, p \in PopenOutcomes :
        Webhook(h, b, f, r, p)

NextWebhook == AnyWebhook \/ Send

SpecWebhook == InitWebhook /\ [][NextWebhook]_vars

---------------------------------------------------------------------------
(* Properties *)

Served == req.handler = "serve_files"

\* the token is a string whose text after its last "." is the signature of
\* the text before it
ValidByLastDot(token) ==
    /\ token.type = "str"
    /\ \E i \in 1..Len(token.v) :
          /\ token.v[i] = "."
          /\ \A j \in (i + 1)..Len(token.v) : token.v[j] # "."
          /\ SubSeq(token.v, i + 1, Len(token.v))
                = SubSeq(hexdigest(SESSION_SECRET, SubSeq(token.v, 1, i - 1)), 1, SigLen)

\* C1: every token that login issued is accepted by verify_session_token in
\* every later state of the process, and a file request that carries one is
\* authenticated, whatever requests were handled since it was issued.
T_C1 ==
    /\ \A t \in issued : verify_session_token(PyStr(t)) = "True"
    /\ (Served /\ req.cookie.type = "str" /\ req.cookie.v \in issued)
          => resp.auth = "True"

W_C1 ==
    /\ Served
    /\ req.cookie.type = "str" /\ req.cookie.v \in issued
    /\ Cardinality(issued) >= 2
    /\ resp.auth = "True"

\* the token is one of the issued ones with one signature character changed
IssuedAltered(token) ==
    /\ token.type = "str"
    /\ \E t \in issued :
          /\ Len(t) = Len(token.v)
          /\ \E i \in (LastIndex(t, ".") + 1)..Len(t) :
                /\ t[i] # token.v[i]
                /\ \A j \in 1..Len(t) : j # i => t[j] = token.v[j]

\* the token was issued by a process with another secret
Foreign(token) ==
    /\ token.type = "str"
    /\ \E k \in Secrets \ { SESSION_SECRET }, n \in Nonces : token.v = SignedWith(k, n)

\* C2 (as claimed): verification returns a boolean for every cookie, no
\* exception, and returns false for an absent or empty token, a token with no
\* ".", an issued token with one signature character altered, and a token
\* issued under another secret.
CE_C2 ==
    Served =>
        /\ resp.exc = "none"
        /\ resp.auth \in { "True", "False" }
        /\ ( \/ ~Truthy(req.cookie)
             \/ ~Contains(req.cookie.v, << "." >>)
             \/ IssuedAltered(req.cookie)
             \/ Foreign(req.cookie) ) => resp.auth = "False"

\* C3 (as claimed): a token is accepted if and only if it splits at "." into
\* exactly two parts of which the second is the signature of the first.
CE_C3 ==
    Served =>
        ( resp.auth = "True" <=>
             /\ req.cookie.type = "str"
             /\ LET parts == split(req.cookie.v, ".")
                IN  /\ Len(parts) = 2
                    /\ parts[2] = SubSeq(hexdigest(SESSION_SECRET, parts[1]), 1, SigLen) )

\* C3 (amended): a token is accepted if and only if it contains a "." and the
\* text after its last "." is the signature of all the text before it, which
\* may itself contain ".".
T_C3 == Served => (resp.auth = "True" <=> ValidByLastDot(req.cookie))

W_C3 ==
    /\ Served
    /\ resp.auth = "True"
    /\ Len(split(req.cookie.v, ".")) > 2

\* C6 (as claimed): a file request without a verifiable session cookie gets
\* 401 "Unauthorized", or the login page when the path is "/".
CE_C6 ==
    (Served /\ ~ValidByLastDot(req.cookie)) =>
        \/ resp.status = 401 /\ resp.kind = "unauthorized"
        \/ req.path = << "/" >> /\ resp.kind = "login_page"

\* C9 (as claimed): a login gets 200 and a cookie with a fresh token exactly
\* when the submitted hash is the configured one, and 401 with no cookie for
\* every other body.
CE_C9 ==
    req.handler = "login" =>
        IF req.json.kind = "object" /\ req.json.hash = PyStr(config.password_hash)
        THEN /\ resp.status = 200
             /\ resp.cookie = PyStr(create_session_token(req.nonce))
             /\ resp.cookie.v \in issued
        ELSE /\ resp.status = 401
             /\ resp.kind = "login_fail"
             /\ resp.cookie = PyNone

---------------------------------------------------------------------------
(* Properties of path resolution *)

Authenticated == Served /\ resp.auth = "True"

\* the path has a ".." segment followed by a separator
HasParentSegment(path) == Contains(path, << "/", ".", ".", "/" >>)

\* some ".." segment of the path comes when as many ".." as names came before
RECURSIVE ClimbsFrom(_, _)
ClimbsFrom(comps, depth) ==
    IF comps = << >> THEN FALSE
    ELSE IF Head(comps) = << >> \/ Head(comps) = << "." >>
    THEN ClimbsFrom(Tail(comps), depth)
    ELSE IF Head(comps) = << ".", "." >>
    THEN depth = 0 \/ ClimbsFrom(Tail(comps), depth - 1)
    ELSE ClimbsFrom(Tail(comps), depth + 1)

Climbs(path) == ClimbsFrom(split(path, "/"), 0)

\* C4 (as claimed): an authenticated request for a path with a "../" segment
\* anywhere is answered 403.
CE_C4 ==
    (Authenticated /\ HasParentSegment(req.path)) =>
        resp.status = 403 /\ resp.kind = "forbidden"

\* C4 (amended): an authenticated request for a path whose ".." segments
\* climb above the root is answered 403, never with a file or a listing.
T_C4 ==
    (Authenticated /\ Climbs(req.path)) =>
        resp.status = 403 /\ resp.kind = "forbidden"

W_C4 ==
    /\ Authenticated
    /\ Climbs(req.path)
    /\ StartsWith(req.path, << "/", "a", "/" >>)
    /\ resp.kind = "forbidden"

RootLoc == Resolve(config.data_dir).loc

Under(loc, root) == Len(loc) >= Len(root) /\ SubSeq(loc, 1, Len(root)) = root

\* C5: what a file request lists or streams is the data directory or lies
\* below it, and a path of separators only is the data directory itself.
T_C5 ==
    Served =>
        /\ resp.kind \in { "listing", "file" } =>
              /\ Resolve(resp.full_path).ok
              /\ Under(Resolve(resp.full_path).loc, RootLoc)
        /\ (resp.auth = "True" /\ lstrip(req.path, "/") = << >>) =>
              /\ resp.kind = "listing"
              /\ Resolve(resp.full_path).loc = RootLoc

W_C5 ==
    /\ Served
    /\ resp.kind = "file"
    /\ StartsWith(req.path, << "/", "/", "." >>)
    /\ Len(Resolve(resp.full_path).loc) > Len(RootLoc) + 1

Children(loc) == { e.loc[Len(e.loc)] : e \in { x \in fs : Len(x.loc) = Len(loc) + 1 /\ Under(x.loc, loc) } }

SeqSet(q) == { q[i] : i \in 1..Len(q) }

Ascending(q) == \A i \in 1..(Len(q) - 1) : StrLess(q[i], q[i + 1])

\* the name a link of the listing ends with
LinkName(link) ==
    LET comps == split(rstrip(link, "/"), "/")
    IN  comps[Len(comps)]

ListedOrdered ==
    /\ Ascending(resp.dirs)
    /\ Ascending(resp.files)
    /\ [i \in 1..Len(resp.links) |-> LinkName(resp.links[i])] = resp.dirs \o resp.files
    /\ req.path = << "/" >> => Resolve(resp.full_path).loc = RootLoc

\* C10 (as claimed): a listing holds exactly the children whose names do
\* not start with ".", directories before files, each group ascending; for
\* the path "/" it is the listing of the data directory.
CE_C10 ==
    resp.kind = "listing" =>
        LET loc == Resolve(resp.full_path).loc
        IN  /\ SeqSet(resp.dirs \o resp.files) = { n \in Children(loc) : ~Hidden(n) }
            /\ \A n \in SeqSet(resp.dirs) : KindAt(Append(loc, n)) = "dir"
            /\ \A n \in SeqSet(resp.files) : KindAt(Append(loc, n)) # "dir"
            /\ ListedOrdered

\* C10 (amended): a listing holds exactly the children that are directories
\* or regular files and whose names do not start with ".", directories before
\* files, each group ascending; for the path "/" it is the listing of the
\* data directory.
T_C10 ==
    resp.kind = "listing" =>
        LET loc == Resolve(resp.full_path).loc
        IN  /\ SeqSet(resp.dirs)
                 = { n \in Children(loc) : ~Hidden(n) /\ KindAt(Append(loc, n)) = "dir" }
            /\ SeqSet(resp.files)
                 = { n \in Children(loc) : ~Hidden(n) /\ KindAt(Append(loc, n)) = "file" }
            /\ ListedOrdered

W_C10 ==
    /\ resp.kind = "listing"
    /\ req.path = << "/" >>
    /\ Len(resp.dirs) >= 2
    /\ Len(resp.files) >= 1
    /\ \E n \in Children(RootLoc) : Hidden(n)
    /\ \E n \in Children(RootLoc) : KindAt(Append(RootLoc, n)) = "other"

---------------------------------------------------------------------------
(* Properties of the webhook *)

Hooked == req.handler = "webhook"

RedeploySteps == << "fetch", "reset", "restart" >>

\* the header is the signature of the body under the configured secret
Verified ==
    /\ config.webhook_secret # << >>
    /\ req.sig_header = Sha256Prefix \o hexdigest(config.webhook_secret, req.body)

\* C7 (as claimed, for a server whose repository directory is set): no
\* secret: 500 "not configured"; otherwise no "sha256=" prefix: 401 "missing
\* signature"; otherwise a header that is not the expected one: 401 "invalid
\* signature"; otherwise the redeploy is reached.
CE_C7 ==
    (Hooked /\ config.repo_dir # << >>) =>
        IF config.webhook_secret = << >>
        THEN resp.status = 500 /\ resp.kind = "not_configured"
        ELSE IF ~StartsWith(req.sig_header, Sha256Prefix)
        THEN resp.status = 401 /\ resp.kind = "missing_signature"
        ELSE IF ~Verified
        THEN resp.status = 401 /\ resp.kind = "invalid_signature"
        ELSE resp.calls # << >>

\* C8: the redeploy commands run in the order fetch, reset, restart, each
\* only after the one before succeeded and none unless the signature was
\* verified; a failed fetch or reset gives 500 and no restart.
T_C8 ==
    Hooked =>
        /\ Len(resp.calls) <= Len(RedeploySteps)
        /\ \A i \in 1..Len(resp.calls) : resp.calls[i].cmd = RedeploySteps[i]
        /\ \A i \in 2..Len(resp.calls) : resp.calls[i - 1].out = "ok"
        /\ resp.calls # << >> => Verified
        /\ (Verified /\ config.repo_dir # << >>) =>
              /\ resp.calls # << >>
              /\ resp.calls[1].out = req.fetch
              /\ Len(resp.calls) >= 2 => resp.calls[2].out = req.reset
              /\ (req.fetch # "ok" \/ req.reset # "ok") =>
                    /\ resp.status = 500
                    /\ \A i \in 1..Len(resp.calls) : resp.calls[i].cmd # "restart"

W_C8 ==
    /\ Hooked
    /\ Verified
    /\ Len(resp.calls) = 2
    /\ resp.calls[2].out = "nonzero"
    /\ resp.status = 500

=============================================================================
